---------------------------- MODULE Spec2Model ----------------------------
(***************************************************************************)
(* Model of scraper.py, the Ukraine combat data scraper: the alias table   *)
(* and the sector registry, the count extractor (parse_engagement_count),  *)
(* the report fetch (fetch_latest_report), the snapshot builder            *)
(* (build_combat_data) and the orchestration of main(), run after run      *)
(* against the snapshot file the previous run left on disk.                *)
(*                                                                         *)
(* Python values are represented as follows.                               *)
(*   None / a value v      the tuples << >> and <<v>>                      *)
(*   str                   a TLA+ string                                   *)
(*   dict                  a function on the set of its keys               *)
(*   list                  a sequence                                      *)
(*   float (coordinates)   the integer number of hundredths                *)
(*   datetime              an integer number of clock ticks                *)
(* The regular-expression engine is a library: an article text is given by *)
(* whether it is the empty string and by the groups of the matches that    *)
(* re.finditer yields on its lowercased form, pattern after pattern.       *)
(***************************************************************************)
EXTENDS Integers, Sequences, FiniteSets, TLC

VARIABLES
    pc,                 \* position of main(): start, fetched, counted,
                        \* stamped, built, done, aborted
    error,              \* the exception that ended the run, or None
    article_text,       \* main: article_text
    article_url,        \* main: article_url
    engagement_counts,  \* main: engagement_counts
    today,              \* build_combat_data: today
    combat_data,        \* main: combat_data
    file,               \* contents of OUTPUT_FILE, or None when it is absent
    now                 \* the UTC clock, in ticks

vars == <<pc, error, article_text, article_url, engagement_counts, today,
          combat_data, file, now>>

(***************************************************************************)
(* Bounds of the model.                                                    *)
(***************************************************************************)
MaxMatches == 2     \* matches in an article given to the extractor alone
MaxLinks == 2       \* anchors on the listing page
MaxCount == 2       \* largest count in the count maps given to the builder
MaxClock == 2       \* last tick of the clock
TicksPerDay == 2    \* ticks in a calendar day

None == << >>
Some(v) == <<v>>

(***************************************************************************)
(* Strings.                                                                *)
(***************************************************************************)
Char(s, i) == SubSeq(s, i, i)

\* Python: t in s
Contains(s, t) ==
    \E i \in 1..(Len(s) - Len(t) + 1) : SubSeq(s, i, i + Len(t) - 1) = t

\* Python: s.startswith(t)
StartsWith(s, t) == Len(s) >= Len(t) /\ SubSeq(s, 1, Len(t)) = t

RECURSIVE Strip(_)
\* Python: s.strip()
Strip(s) ==
    IF Len(s) = 0 THEN s
    ELSE IF Char(s, 1) = " " THEN Strip(SubSeq(s, 2, Len(s)))
    ELSE IF Char(s, Len(s)) = " " THEN Strip(SubSeq(s, 1, Len(s) - 1))
    ELSE s

RECURSIVE Replace(_, _, _)
\* Python: s.replace(old, new), old and new one character long
Replace(s, old, new) ==
    IF Len(s) = 0 THEN s
    ELSE (IF Char(s, 1) = old THEN new ELSE Char(s, 1))
         \o Replace(SubSeq(s, 2, Len(s)), old, new)

DigitChars == {"0", "1", "2", "3", "4", "5", "6", "7", "8", "9"}

\* Python: s.isdigit()
IsDigit(s) == Len(s) > 0 /\ \A i \in 1..Len(s) : Char(s, i) \in DigitChars

DigitValue(c) ==
    CASE c = "0" -> 0 [] c = "1" -> 1 [] c = "2" -> 2 [] c = "3" -> 3
      [] c = "4" -> 4 [] c = "5" -> 5 [] c = "6" -> 6 [] c = "7" -> 7
      [] c = "8" -> 8 [] c = "9" -> 9

RECURSIVE ParseInt(_)
\* Python: int(s), s a string of decimal digits
ParseInt(s) ==
    IF Len(s) = 1 THEN DigitValue(s)
    ELSE 10 * ParseInt(SubSeq(s, 1, Len(s) - 1)) + DigitValue(Char(s, Len(s)))

(***************************************************************************)
(* Dictionaries.                                                           *)
(***************************************************************************)
EmptyDict == [k \in {} |-> 0]

\* Python: d[key] = value
DictSet(d, key, value) ==
    [k \in DOMAIN d \cup {key} |-> IF k = key THEN value ELSE d[k]]

\* Python: d.get(key, default)
DictGet(d, key, default) == IF key \in DOMAIN d THEN d[key] ELSE default

RECURSIVE SumOver(_, _)
SumOver(d, keys) ==
    IF keys = {} THEN 0
    ELSE LET k == CHOOSE x \in keys : TRUE
         IN  d[k] + SumOver(d, keys \ {k})

\* Python: sum(d.values())
SumValues(d) == SumOver(d, DOMAIN d)

(***************************************************************************)
(* The alias table and the sector registry, in the order they are written. *)
(***************************************************************************)
DIRECTION_ALIASES ==
  << <<"pokrovsk", "pokrovsk">>,
     <<"kostiantynivka", "kostiantynivka">>,
     <<"kostyantynivka", "kostiantynivka">>,
     <<"konstantynivka", "kostiantynivka">>,
     <<"oleksandrivka", "oleksandrivka">>,
     <<"alexandrivka", "oleksandrivka">>,
     <<"lyman", "lyman">>,
     <<"sloviansk", "sloviansk">>,
     <<"slovyansk", "sloviansk">>,
     <<"slavyansk", "sloviansk">>,
     <<"huliaipole", "huliaipole">>,
     <<"gulyaipole", "huliaipole">>,
     <<"orikhiv", "orikhiv">>,
     <<"orekhov", "orikhiv">>,
     <<"kupiansk", "kupiansk">>,
     <<"kupyansk", "kupiansk">>,
     <<"kramatorsk", "kramatorsk">>,
     <<"kursk", "kursk">>,
     <<"kharkiv", "kharkiv_north">>,
     <<"slobozhansky", "kharkiv_north">>,
     <<"slobozhansk", "kharkiv_north">>,
     <<"northern-slobozhansky", "kharkiv_north">>,
     <<"northern slobozhansky", "kharkiv_north">>,
     <<"north-slobozhansky", "kharkiv_north">>,
     <<"southern-slobozhansky", "kharkiv_north">>,
     <<"southern slobozhansky", "kharkiv_north">>,
     <<"kherson", "kherson">>,
     <<"prydniprovskyi", "kherson">>,
     <<"prydniprovsky", "kherson">>,
     <<"dnipro", "kherson">>,
     <<"toretsk", "toretsk">>,
     <<"siversk", "siversk">> >>

DIRECTION_CONFIG ==
  << [name |-> "pokrovsk", displayName |-> "Pokrovsk",
      coords |-> <<4828, 3718>>,
      polygon |-> <<<<4845, 3690>>, <<4850, 3750>>, <<4820, 3760>>, <<4805, 3720>>, <<4815, 3685>>>>],
     [name |-> "kostiantynivka", displayName |-> "Kostiantynivka",
      coords |-> <<4852, 3770>>,
      polygon |-> <<<<4865, 3745>>, <<4870, 3795>>, <<4845, 3800>>, <<4835, 3760>>, <<4850, 3740>>>>],
     [name |-> "oleksandrivka", displayName |-> "Oleksandrivka",
      coords |-> <<4795, 3670>>,
      polygon |-> <<<<4810, 3650>>, <<4810, 3695>>, <<4785, 3700>>, <<4775, 3665>>, <<4790, 3645>>>>],
     [name |-> "lyman", displayName |-> "Lyman",
      coords |-> <<4898, 3781>>,
      polygon |-> <<<<4915, 3750>>, <<4920, 3810>>, <<4900, 3825>>, <<4880, 3800>>, <<4885, 3755>>>>],
     [name |-> "sloviansk", displayName |-> "Sloviansk",
      coords |-> <<4885, 3758>>,
      polygon |-> <<<<4895, 3735>>, <<4900, 3775>>, <<4880, 3785>>, <<4870, 3750>>, <<4880, 3730>>>>],
     [name |-> "huliaipole", displayName |-> "Huliaipole",
      coords |-> <<4765, 3625>>,
      polygon |-> <<<<4785, 3590>>, <<4785, 3650>>, <<4755, 3660>>, <<4740, 3620>>, <<4755, 3585>>>>],
     [name |-> "orikhiv", displayName |-> "Orikhiv",
      coords |-> <<4756, 3578>>,
      polygon |-> <<<<4775, 3550>>, <<4775, 3600>>, <<4745, 3605>>, <<4735, 3565>>, <<4750, 3545>>>>],
     [name |-> "kupiansk", displayName |-> "Kupiansk",
      coords |-> <<4971, 3762>>,
      polygon |-> <<<<4990, 3730>>, <<4995, 3790>>, <<4970, 3800>>, <<4950, 3770>>, <<4955, 3725>>>>],
     [name |-> "kramatorsk", displayName |-> "Kramatorsk",
      coords |-> <<4872, 3755>>,
      polygon |-> <<<<4882, 3740>>, <<4885, 3770>>, <<4865, 3775>>, <<4858, 3750>>, <<4868, 3735>>>>],
     [name |-> "kursk", displayName |-> "Kursk (RU)",
      coords |-> <<5140, 3520>>,
      polygon |-> <<<<5165, 3460>>, <<5170, 3560>>, <<5135, 3580>>, <<5110, 3530>>, <<5125, 3470>>>>],
     [name |-> "kharkiv_north", displayName |-> "Kharkiv (N)",
      coords |-> <<5005, 3645>>,
      polygon |-> <<<<5025, 3610>>, <<5030, 3680>>, <<5005, 3695>>, <<4985, 3655>>, <<4995, 3615>>>>],
     [name |-> "kherson", displayName |-> "Kherson",
      coords |-> <<4665, 3262>>,
      polygon |-> <<<<4685, 3220>>, <<4690, 3300>>, <<4655, 3310>>, <<4640, 3260>>, <<4655, 3215>>>>],
     [name |-> "toretsk", displayName |-> "Toretsk",
      coords |-> <<4840, 3785>>,
      polygon |-> <<<<4855, 3765>>, <<4855, 3805>>, <<4830, 3810>>, <<4825, 3775>>, <<4840, 3760>>>>],
     [name |-> "siversk", displayName |-> "Siversk",
      coords |-> <<4887, 3808>>,
      polygon |-> <<<<4900, 3790>>, <<4905, 3830>>, <<4880, 3835>>, <<4872, 3800>>, <<4885, 3785>>>>] >>


\* Python: key in DIRECTION_CONFIG
ConfigKeys == {DIRECTION_CONFIG[i].name : i \in DOMAIN DIRECTION_CONFIG}

(***************************************************************************)
(* get_heat_level                                                          *)
(***************************************************************************)
get_heat_level(engagements) ==
    IF engagements >= 30 THEN "extreme"
    ELSE IF engagements >= 15 THEN "high"
    ELSE IF engagements >= 8 THEN "medium"
    ELSE IF engagements >= 3 THEN "low"
    ELSE "quiet"

(***************************************************************************)
(* parse_engagement_count.  A text is [empty, matches]: empty tells        *)
(* whether the text is the empty string, matches is the sequence of        *)
(* match.groups() in the order the two nested loops visit them.            *)
(***************************************************************************)
\* count, direction = ... : the group that is all digits is the count
MatchCount(groups) ==
    IF IsDigit(groups[1]) THEN ParseInt(groups[1]) ELSE ParseInt(groups[2])

MatchDirection(groups) ==
    IF IsDigit(groups[1]) THEN groups[2] ELSE groups[1]

\* direction.strip().replace('-', '_').replace(' ', '_')
CleanDirection(direction) ==
    Replace(Replace(Strip(direction), "-", "_"), " ", "_")

\* Compatible with a fault: containment in one direction only
CompatibleOneWay(alias, direction) == Contains(direction, alias)

\* alias in direction or direction in alias
Compatible(alias, direction) ==
    Contains(direction, alias) \/ Contains(alias, direction)

RECURSIVE AliasLoop(_, _)
\* for alias, canon in DIRECTION_ALIASES.items(): ... break
AliasLoop(direction, i) ==
    IF i > Len(DIRECTION_ALIASES) THEN None
    ELSE IF Compatible(DIRECTION_ALIASES[i][1], direction)
         THEN Some(DIRECTION_ALIASES[i][2])
         ELSE AliasLoop(direction, i + 1)

Canonical(direction) == AliasLoop(direction, 1)

\* KeepHighest with a fault: the last match wins
KeepLast(results, canonical, count) == DictSet(results, canonical, count)

\* if canonical not in results or count > results[canonical]: ...
KeepHighest(results, canonical, count) ==
    IF canonical \notin DOMAIN results \/ count > results[canonical]
    THEN DictSet(results, canonical, count)
    ELSE results

\* the body of the loop over the matches
StoreMatch(results, groups) ==
    LET count == MatchCount(groups)
        direction == CleanDirection(MatchDirection(groups))
        canonical == Canonical(direction)
    IN  IF canonical # None /\ Len(canonical[1]) > 0
           /\ canonical[1] \in ConfigKeys
        THEN KeepHighest(results, canonical[1], count)
        ELSE results

RECURSIVE MatchLoop(_, _, _)
MatchLoop(matches, i, results) ==
    IF i > Len(matches) THEN results
    ELSE MatchLoop(matches, i + 1, StoreMatch(results, matches[i]))

parse_engagement_count(text) == MatchLoop(text.matches, 1, EmptyDict)

(***************************************************************************)
(* fetch_latest_report.  A response is [status, ...] with status one of    *)
(* connection_error and timeout (requests.get raises), http_error          *)
(* (raise_for_status raises) and ok.  The listing page carries its anchors *)
(* as links, an anchor is [title, href, response] and the response of an   *)
(* article carries body, the text of its newsText div or None.             *)
(***************************************************************************)
UpperCase == "ABCDEFGHIJKLMNOPQRSTUVWXYZ"
LowerCase == "abcdefghijklmnopqrstuvwxyz"

\* the lowercase letter of each uppercase letter
LowerTable ==
    [c \in {Char(UpperCase, i) : i \in 1..Len(UpperCase)} |->
        Char(LowerCase, CHOOSE i \in 1..Len(UpperCase) : Char(UpperCase, i) = c)]

LowerChar(c) == IF c \in DOMAIN LowerTable THEN LowerTable[c] ELSE c

RECURSIVE Lower(_)
\* Python: s.lower()
Lower(s) ==
    IF Len(s) = 0 THEN s
    ELSE LowerChar(Char(s, 1)) \o Lower(SubSeq(s, 2, Len(s)))

keywords == {"combat engagement", "general staff", "combat clash", "enemy attack"}

\* any(kw in title for kw in keywords)
TitleMatches(title) == \E kw \in keywords : Contains(Lower(title), kw)

\* if not url.startswith('http'): url = 'https://www.ukrinform.net' + url
ArticleUrl(href) ==
    IF ~StartsWith(href, "http") THEN "https://www.ukrinform.net" \o href
    ELSE href

Raised(exception) == [raised |-> Some(exception), text |-> None, url |-> None]
Returned(text, url) == [raised |-> None, text |-> text, url |-> url]

\* requests.get(...) followed by raise_for_status()
RequestError(response) ==
    IF response.status = "connection_error" THEN Some("ConnectionError")
    ELSE IF response.status = "timeout" THEN Some("Timeout")
    ELSE IF response.status = "http_error" THEN Some("HTTPError")
    ELSE None

RECURSIVE LinkLoop(_, _)
\* for article in soup.find_all('a', href=True): ...
\* A newsText div that is found is returned with its text, the empty string
\* included: 'if article_body' tests the element, not its text.
LinkLoop(links, i) ==
    IF i > Len(links) THEN Returned(None, None)
    ELSE LET article == links[i]
         IN  IF ~TitleMatches(article.title) THEN LinkLoop(links, i + 1)
             ELSE IF RequestError(article.response) # None
                  THEN Raised(RequestError(article.response)[1])
             ELSE IF article.response.body # None
                  THEN Returned(article.response.body,
                                Some(ArticleUrl(article.href)))
             ELSE LinkLoop(links, i + 1)

fetch_latest_report(listing) ==
    IF RequestError(listing) # None THEN Raised(RequestError(listing)[1])
    ELSE LinkLoop(listing.links, 1)

(***************************************************************************)
(* fetch_casualty_data.  The response of the casualty API is [status,      *)
(* data]: any status but ok stands for an exception or a non-ok reply,     *)
(* data is the decoded JSON array.                                         *)
(***************************************************************************)
UkraineCasualties ==
    [total |-> 400000, daily |-> None, source |-> "Zelensky (Jan 2025)"]

StaticCasualties ==
    [russia |-> [total |-> 1167570, daily |-> 1120,
                 source |-> "Ukrainian General Staff"],
     ukraine |-> UkraineCasualties]

fetch_casualty_data(response) ==
    IF response.status = "ok" /\ Len(response.data) > 0
    THEN LET latest == response.data[Len(response.data)]
         IN  [russia |-> [total |-> DictGet(latest, "personnel", 0),
                          daily |-> DictGet(latest, "personnel_daily", 0),
                          source |-> "Ukrainian General Staff"],
              ukraine |-> UkraineCasualties]
    ELSE StaticCasualties

(***************************************************************************)
(* The clock: datetime.now(timezone.utc), strftime('%Y-%m-%d') and         *)
(* isoformat().  A date is the number of the day, a timestamp is the day   *)
(* and the tick within the day.                                            *)
(***************************************************************************)
StrfDate(instant) == instant \div TicksPerDay

IsoFormat(instant) ==
    [date |-> instant \div TicksPerDay, time |-> instant % TicksPerDay]

\* the calendar-date part of an ISO-8601 timestamp
DatePart(timestamp) == timestamp.date

(***************************************************************************)
(* build_combat_data                                                       *)
(***************************************************************************)
\* count = engagement_counts.get(direction_id, 0)
SectorCount(counts, direction_id) ==
    DictGet(counts, direction_id, 0)

\* front_sectors.append({...})
SectorRecord(config, count) ==
    [name |-> config.name,
     displayName |-> config.displayName,
     coords |-> config.coords,
     combatEngagements |-> count,
     heat |-> get_heat_level(count),
     polygon |-> config.polygon]

RECURSIVE InsertBeforeEqual(_, _)
InsertBeforeEqual(sorted, x) ==
    IF sorted = << >> THEN <<x>>
    ELSE IF Head(sorted).combatEngagements > x.combatEngagements
         THEN <<Head(sorted)>> \o InsertBeforeEqual(Tail(sorted), x)
         ELSE <<x>> \o sorted

RECURSIVE InsertAfterEqual(_, _)
InsertAfterEqual(sorted, x) ==
    IF sorted = << >> THEN <<x>>
    ELSE IF Head(sorted).combatEngagements >= x.combatEngagements
         THEN <<Head(sorted)>> \o InsertAfterEqual(Tail(sorted), x)
         ELSE <<x>> \o sorted

RECURSIVE SortUnstableFrom(_, _, _)
SortUnstableFrom(list, i, sorted) ==
    IF i > Len(list) THEN sorted
    ELSE SortUnstableFrom(list, i + 1, InsertBeforeEqual(sorted, list[i]))

\* SortByEngagements with a fault: descending, ties in reverse order
SortUnstable(list) == SortUnstableFrom(list, 1, << >>)

RECURSIVE SortFrom(_, _, _)
SortFrom(list, i, sorted) ==
    IF i > Len(list) THEN sorted
    ELSE SortFrom(list, i + 1, InsertAfterEqual(sorted, list[i]))

\* front_sectors.sort(key=lambda x: x['combatEngagements'], reverse=True):
\* list.sort is stable, and with reverse=True equal elements keep their order
SortByEngagements(list) == SortFrom(list, 1, << >>)

\* a selector of the registry entries that have a count in the map
HasCount(counts, config) == config.name \in DOMAIN counts

\* SectorList with a fault: one record per sector of the count map
SectorListOfMap(counts) ==
    LET Counted(config) == HasCount(counts, config)
        configs == SelectSeq(DIRECTION_CONFIG, Counted)
    IN  [i \in 1..Len(configs) |->
            SectorRecord(configs[i],
                         SectorCount(counts, configs[i].name))]

\* for direction_id, config in DIRECTION_CONFIG.items(): ... append
SectorList(counts) ==
    [i \in 1..Len(DIRECTION_CONFIG) |->
        SectorRecord(DIRECTION_CONFIG[i],
                     SectorCount(counts, DIRECTION_CONFIG[i].name))]

\* the loop over DIRECTION_CONFIG.items() and the sort
FrontSectors(counts) ==
    SortByEngagements(SectorList(counts))

\* TotalEngagements with a fault: the number of entries, not their sum
CountEntries(counts) == Cardinality(DOMAIN counts)

\* total_engagements = sum(engagement_counts.values())
TotalEngagements(counts) == SumValues(counts)

\* the value returned, today being the date stamped at the first statement,
\* instant the clock at 'lastUpdate' and casualties fetch_casualty_data()
build_combat_data(counts, source_url, date, instant, casualties) ==
    [date |-> date,
     source |-> "Ukrainian General Staff",
     sourceUrl |-> source_url,
     totalEngagements |-> TotalEngagements(counts),
     lastUpdate |-> IsoFormat(instant),
     frontSectors |-> FrontSectors(counts),
     casualties |-> casualties]

(***************************************************************************)
(* Persistence: json.dump and json.load.  Integers, strings, lists and     *)
(* objects are written and read back as they are; None is written as the   *)
(* token null and a string between quotes.                                 *)
(***************************************************************************)
JsonOptional(value) ==
    IF value = None THEN "null" ELSE "\"" \o value[1] \o "\""

JsonOptionalLoad(token) ==
    IF token = "null" THEN None ELSE Some(SubSeq(token, 2, Len(token) - 1))

\* json.dump(combat_data, f, indent=2)
JsonDump(data) ==
    [data EXCEPT !.sourceUrl = JsonOptional(@),
                 !.casualties.ukraine.daily = JsonOptional(@)]

\* json.load(f)
JsonLoad(document) ==
    [document EXCEPT !.sourceUrl = JsonOptionalLoad(@),
                     !.casualties.ukraine.daily = JsonOptionalLoad(@)]

\* load_existing_data: None when the file does not exist
load_existing_data == IF file = None THEN None ELSE Some(JsonLoad(file[1]))

(***************************************************************************)
(* main: the fallback count maps                                           *)
(***************************************************************************)
RECURSIVE ExistingLoop(_, _, _, _)
ExistingLoop(sectors, i, key, counts) ==
    IF i > Len(sectors) THEN counts
    ELSE ExistingLoop(sectors, i + 1, key,
                      DictSet(counts, sectors[i][key],
                              sectors[i].combatEngagements))

\* ExistingCounts with a fault: keyed by the display name of the sector
ExistingCountsByDisplayName(existing) ==
    ExistingLoop(existing.frontSectors, 1, "displayName", EmptyDict)

\* {sector['name']: sector['combatEngagements']
\*  for sector in existing.get('frontSectors', [])}
ExistingCounts(existing) ==
    ExistingLoop(existing.frontSectors, 1, "name", EmptyDict)

\* the hardcoded fallback
HardcodedFallback ==
    ("pokrovsk" :> 35) @@ ("kostiantynivka" :> 20) @@ ("oleksandrivka" :> 14)
    @@ ("lyman" :> 10) @@ ("huliaipole" :> 8) @@ ("sloviansk" :> 6)
    @@ ("kupiansk" :> 5) @@ ("orikhiv" :> 4) @@ ("kramatorsk" :> 3)
    @@ ("kursk" :> 2) @@ ("kharkiv_north" :> 2) @@ ("kherson" :> 1)

\* FallbackCounts with a fault: the prior snapshot is never consulted
FallbackHardcodedOnly(existing) == HardcodedFallback

\* if existing: ... else: ...  (a loaded snapshot is a non-empty dict)
FallbackCounts(existing) ==
    IF existing # None /\ DOMAIN existing[1] # {}
    THEN ExistingCounts(existing[1])
    ELSE HardcodedFallback

\* if article_text:
Truthy(text) == text # None /\ ~text[1].empty

(***************************************************************************)
(* The inputs of a run.                                                    *)
(***************************************************************************)
EmptyText == [empty |-> TRUE, matches |-> << >>]

\* "In the Pokrovsk direction, the enemy made 43 attacks. Lyman direction
\* - 10 attacks.": the first two patterns match once each, the last one
\* matches the second sentence again
ExampleText ==
    [empty |-> FALSE,
     matches |-> << <<"pokrovsk", "43">>, <<"lyman", "10">>,
                    <<"lyman direction", "10">> >>]

\* a report in which no pattern matches
NoMatchText == [empty |-> FALSE, matches |-> << >>]

\* "Pokrovsk direction - 12 attacks. 7 attacks in the Pokrovsk direction"
ConflictText ==
    [empty |-> FALSE,
     matches |-> << <<"pokrovsk", "12">>, <<"7", "pokrovsk">>,
                    <<"pokrovsk direction", "12">> >>]

Response(status, body) == [status |-> status, body |-> body]

Anchor(title, href, response) ==
    [title |-> title, href |-> href, response |-> response]

ReportTitle == "General Staff report"

\* an anchor that is no report, a report whose request fails in each way, a
\* report page without a body, and reports with each text; the last anchor
\* has an absolute href and another keyword in its title
LinkPool ==
    {Anchor("Weather", "/rubric-society/1", Response("ok", Some(ExampleText))),
     Anchor(ReportTitle, "/rubric-ato/2", Response("connection_error", None)),
     Anchor(ReportTitle, "/rubric-ato/2", Response("timeout", None)),
     Anchor(ReportTitle, "/rubric-ato/2", Response("http_error", None)),
     Anchor(ReportTitle, "/rubric-ato/2", Response("ok", None)),
     Anchor(ReportTitle, "/rubric-ato/3", Response("ok", Some(EmptyText))),
     Anchor(ReportTitle, "/rubric-ato/3", Response("ok", Some(ExampleText))),
     Anchor(ReportTitle, "/rubric-ato/3", Response("ok", Some(NoMatchText))),
     Anchor("Enemy attacks", "https://www.ukrinform.net/rubric-ato/4",
            Response("ok", Some(ConflictText)))}

RECURSIVE SeqsUpTo(_, _)
\* the sequences of at most n elements of S
SeqsUpTo(S, n) ==
    IF n = 0 THEN {<< >>}
    ELSE LET shorter == SeqsUpTo(S, n - 1)
         IN  shorter \cup {Append(s, x) : s \in shorter, x \in S}

Listings ==
    {[status |-> status, links |-> << >>] :
        status \in {"connection_error", "timeout", "http_error"}}
    \cup {[status |-> "ok", links |-> links] : links \in SeqsUpTo(LinkPool, MaxLinks)}

CasualtyResponses ==
    {[status |-> "error", data |-> << >>],
     [status |-> "ok", data |-> << >>],
     [status |-> "ok",
      data |-> << ("personnel" :> 1167000) @@ ("personnel_daily" :> 1000),
                  ("personnel" :> 1168000) >>]}

(***************************************************************************)
(* main(), one action per step.  The clock runs on between the steps.      *)
(***************************************************************************)
Init ==
    /\ pc = "start"
    /\ error = None
    /\ article_text = None
    /\ article_url = None
    /\ engagement_counts = EmptyDict
    /\ today = None
    /\ combat_data = None
    /\ file = None
    /\ now = 0

\* article_text, article_url = fetch_latest_report(): an exception raised in
\* fetch_latest_report is caught nowhere and ends the run
FetchReport ==
    /\ pc = "start"
    /\ \E listing \in Listings :
          LET result == fetch_latest_report(listing)
          IN  IF result.raised # None
              THEN /\ pc' = "aborted"
                   /\ error' = result.raised
                   /\ UNCHANGED <<article_text, article_url>>
              ELSE /\ pc' = "fetched"
                   /\ article_text' = result.text
                   /\ article_url' = result.url
                   /\ UNCHANGED error
    /\ UNCHANGED <<engagement_counts, today, combat_data, file, now>>

\* if article_text: engagement_counts = parse_engagement_count(article_text)
ParseArticle ==
    /\ pc = "fetched"
    /\ Truthy(article_text)
    /\ engagement_counts' = parse_engagement_count(article_text[1])
    /\ pc' = "counted"
    /\ UNCHANGED <<error, article_text, article_url, today, combat_data, file, now>>

\* else: existing = load_existing_data(); ...
UseFallback ==
    /\ pc = "fetched"
    /\ ~Truthy(article_text)
    /\ engagement_counts' = FallbackCounts(load_existing_data)
    /\ pc' = "counted"
    /\ UNCHANGED <<error, article_text, article_url, today, combat_data, file, now>>

\* build_combat_data: today = datetime.now(timezone.utc).strftime('%Y-%m-%d')
StampDate ==
    /\ pc = "counted"
    /\ today' = Some(StrfDate(now))
    /\ pc' = "stamped"
    /\ UNCHANGED <<error, article_text, article_url, engagement_counts,
                   combat_data, file, now>>

\* build_combat_data: the rest of the function, 'lastUpdate' reading the
\* clock again
BuildSnapshot ==
    /\ pc = "stamped"
    /\ \E response \in CasualtyResponses :
          combat_data' = Some(build_combat_data(engagement_counts, article_url,
                                                today[1], now,
                                                fetch_casualty_data(response)))
    /\ pc' = "built"
    /\ UNCHANGED <<error, article_text, article_url, engagement_counts, today,
                   file, now>>

\* with open(OUTPUT_FILE, 'w') as f: json.dump(combat_data, f, indent=2)
SaveFile ==
    /\ pc = "built"
    /\ file' = Some(JsonDump(combat_data[1]))
    /\ pc' = "done"
    /\ UNCHANGED <<error, article_text, article_url, engagement_counts, today,
                   combat_data, now>>

\* datetime.now advances
Tick ==
    /\ now < MaxClock
    /\ now' = now + 1
    /\ UNCHANGED <<pc, error, article_text, article_url, engagement_counts,
                   today, combat_data, file>>

\* the next scheduled or manual run of the script, the file left as it is
RunAgain ==
    /\ pc \in {"done", "aborted"}
    /\ pc' = "start"
    /\ error' = None
    /\ article_text' = None
    /\ article_url' = None
    /\ engagement_counts' = EmptyDict
    /\ today' = None
    /\ combat_data' = None
    /\ UNCHANGED <<file, now>>

Next ==
    \/ FetchReport
    \/ ParseArticle
    \/ UseFallback
    \/ StampDate
    \/ BuildSnapshot
    \/ SaveFile
    \/ Tick
    \/ RunAgain

Spec == Init /\ [][Next]_vars
(***************************************************************************)
(* The count extractor alone: parse_engagement_count applied to every      *)
(* article of at most MaxMatches matches drawn from MatchPool.             *)
(***************************************************************************)
MatchPool ==
    {<<"pokrovsk", "12">>,           \* location first
     <<"7", "pokrovsk">>,            \* count first
     <<"north-slobozhansky", "5">>,  \* a hyphen to normalise
     <<"kherson lyman", "3">>,       \* two aliases of two sectors
     <<"lyman direction", "10">>,    \* the catch-all pattern's capture
     <<"k", "4">>,                   \* a phrase inside an alias
     <<"kursk", "0">>,               \* a count of zero
     <<"bakhmut", "9">>,             \* no alias
     <<"2024", "10">>}               \* a date: both groups are digits

ParseTexts ==
    {[empty |-> FALSE, matches |-> matches] :
        matches \in SeqsUpTo(MatchPool, MaxMatches)}

InitParse ==
    /\ pc = "fetched"
    /\ error = None
    /\ article_text \in {Some(text) : text \in ParseTexts}
    /\ article_url = Some("https://www.ukrinform.net/rubric-ato/3")
    /\ engagement_counts = EmptyDict
    /\ today = None
    /\ combat_data = None
    /\ file = None
    /\ now = 0

NextParse == ParseArticle

SpecParse == InitParse /\ [][NextParse]_vars

(***************************************************************************)
(* The snapshot builder alone: build_combat_data applied to every count    *)
(* map over CountKeys with counts up to MaxCount.                          *)
(***************************************************************************)
\* three sectors of the registry and one name that is not in it
CountKeys == {"lyman", "pokrovsk", "siversk", "bakhmut"}

CountMaps == UNION {[keys -> 0..MaxCount] : keys \in SUBSET CountKeys}

InitBuild ==
    /\ pc = "counted"
    /\ error = None
    /\ article_text = None
    /\ article_url = None
    /\ engagement_counts \in CountMaps
    /\ today = None
    /\ combat_data = None
    /\ file = None
    /\ now = 0

NextBuild ==
    \/ StampDate
    \/ BuildSnapshot
    \/ Tick

SpecBuild == InitBuild /\ [][NextBuild]_vars

(***************************************************************************)
(* Properties.                                                             *)
(***************************************************************************)
Max(S) == CHOOSE x \in S : \A y \in S : x >= y
Min(S) == CHOOSE x \in S : \A y \in S : x <= y

\* the matches of the article of this run, once it has been parsed
Parsed == pc \in {"counted", "stamped", "built", "done"} /\ Truthy(article_text)
Matches == article_text[1].matches
Phrase(i) == CleanDirection(MatchDirection(Matches[i]))

\* the snapshot of this run, once it has been built
Built == combat_data # None
Sectors == combat_data[1].frontSectors

\* the position of a sector in the registry
RegistryIndex(name) ==
    CHOOSE i \in 1..Len(DIRECTION_CONFIG) : DIRECTION_CONFIG[i].name = name

\* the run took the fallback branch of main
FellBack == pc \in {"counted", "stamped", "built", "done"} /\ ~Truthy(article_text)

\* name -> combatEngagements over the records of a persisted document
SectorCounts(document) ==
    {<<document.frontSectors[i].name, document.frontSectors[i].combatEngagements>> :
        i \in 1..Len(document.frontSectors)}

NonZero(pairs) == {p \in pairs : p[2] # 0}

Entries(counts) == {<<k, counts[k]>> : k \in DOMAIN counts}

\* C1: a failed report fetch never aborts the run: no outcome of
\* fetch_latest_report ends the run with an unhandled error, and a run that
\* has ended has written the snapshot file.
C1_FailedFetchNeverAborts ==
    /\ pc # "aborted"
    /\ error = None
    /\ pc = "done" => file # None

\* C2: in every snapshot built, on every path of main, totalEngagements is
\* the sum of combatEngagements over the frontSectors records.
C2_TotalIsSumOfSectors ==
    Built =>
        combat_data[1].totalEngagements =
            SumOver([i \in 1..Len(Sectors) |-> Sectors[i].combatEngagements],
                    1..Len(Sectors))

C2_Witness ==
    /\ pc = "built"
    /\ FellBack
    /\ file # None
    /\ combat_data[1].totalEngagements > 0

\* C3: on the fallback branch the count map is the one read from the
\* frontSectors of the prior snapshot file whenever that file exists, and it
\* is the hardcoded map only when no file exists.
C3_FallbackOrder ==
    (FellBack /\ pc # "done") =>
        /\ file # None =>
              /\ DOMAIN engagement_counts =
                    {p[1] : p \in SectorCounts(JsonLoad(file[1]))}
              /\ \A p \in SectorCounts(JsonLoad(file[1])) :
                    engagement_counts[p[1]] = p[2]
        /\ engagement_counts = HardcodedFallback => file = None

C3_Witness ==
    /\ pc = "counted"
    /\ FellBack
    /\ file # None
    /\ \E k \in DOMAIN engagement_counts : engagement_counts[k] > 0

\* C4: the count stored for a sector is the maximum of the counts of all the
\* matches that resolve to it, in whatever order they are matched, and a
\* sector no match resolves to has no count.
C4_KeepsMaximum ==
    Parsed =>
        \A c \in ConfigKeys :
            LET hits == {i \in 1..Len(Matches) : Canonical(Phrase(i)) = Some(c)}
            IN  IF hits = {} THEN c \notin DOMAIN engagement_counts
                ELSE /\ c \in DOMAIN engagement_counts
                     /\ engagement_counts[c] =
                            Max({MatchCount(Matches[i]) : i \in hits})

C4_Witness ==
    /\ pc = "counted"
    /\ Truthy(article_text)
    /\ Matches = << <<"pokrovsk", "12">>, <<"7", "pokrovsk">> >>
    /\ engagement_counts = ("pokrovsk" :> 12)

\* C5: frontSectors holds exactly one record per sector of the registry and
\* no other record, and the combatEngagements of each is the count of the
\* sector in the count map, or 0 when the map has none.
C5_OneRecordPerSector ==
    Built =>
        /\ Len(Sectors) = Len(DIRECTION_CONFIG)
        /\ \A i \in 1..Len(Sectors) : Sectors[i].name \in ConfigKeys
        /\ \A k \in ConfigKeys :
              \E i \in 1..Len(Sectors) :
                  /\ Sectors[i].name = k
                  /\ \A j \in 1..Len(Sectors) : Sectors[j].name = k => j = i
                  /\ Sectors[i].combatEngagements =
                        (IF k \in DOMAIN engagement_counts
                         THEN engagement_counts[k] ELSE 0)

C5_Witness ==
    /\ pc = "built"
    /\ DOMAIN engagement_counts = {"lyman", "bakhmut"}
    /\ engagement_counts["lyman"] = 2
    /\ \E i \in 1..Len(Sectors) :
          Sectors[i].name = "pokrovsk" /\ Sectors[i].combatEngagements = 0

\* the first entry of the alias table, in the order it is written, whose key
\* contains the phrase or is contained in it
FirstCompatible(phrase) ==
    LET compatible ==
            {i \in 1..Len(DIRECTION_ALIASES) :
                \/ Contains(phrase, DIRECTION_ALIASES[i][1])
                \/ Contains(DIRECTION_ALIASES[i][1], phrase)}
    IN  IF compatible = {} THEN None
        ELSE Some(DIRECTION_ALIASES[Min(compatible)][2])

\* C6: a normalized phrase resolves to the sector of the first alias entry
\* that contains it or is contained in it; a phrase with no such entry, or
\* whose sector is not in the registry, adds nothing, so the keys of the
\* map returned are the registry sectors the phrases resolve to.
C6_FirstCompatibleAlias ==
    Parsed =>
        /\ DOMAIN engagement_counts \subseteq ConfigKeys
        /\ DOMAIN engagement_counts =
              {c \in ConfigKeys :
                  \E i \in 1..Len(Matches) : FirstCompatible(Phrase(i)) = Some(c)}

C6_Witness ==
    /\ pc = "counted"
    /\ Truthy(article_text)
    /\ Matches = << <<"kherson lyman", "3">>, <<"bakhmut", "9">> >>
    /\ engagement_counts = ("lyman" :> 3)

\* C7: frontSectors is sorted by combatEngagements in descending order and
\* records with equal counts are in the order of the registry.
C7_SortedDescendingStable ==
    Built =>
        \A i, j \in 1..Len(Sectors) :
            i < j =>
                /\ Sectors[i].combatEngagements >= Sectors[j].combatEngagements
                /\ Sectors[i].combatEngagements = Sectors[j].combatEngagements
                      => RegistryIndex(Sectors[i].name) < RegistryIndex(Sectors[j].name)

C7_Witness ==
    /\ pc = "built"
    /\ engagement_counts = ("siversk" :> 2) @@ ("lyman" :> 2) @@ ("pokrovsk" :> 1)
    /\ Sectors[1].name = "lyman"
    /\ Sectors[2].name = "siversk"
    /\ Sectors[3].name = "pokrovsk"

\* C8: the count map read back from the snapshot file a run has written has
\* the nonzero entries of the count map of that run, and a run that falls
\* back to the prior snapshot writes the per-sector counts it found there.
C8_RoundTrip ==
    /\ [](pc = "done" =>
            NonZero(SectorCounts(JsonLoad(file[1]))) =
                NonZero(Entries(engagement_counts)))
    /\ [][(pc = "built" /\ pc' = "done" /\ FellBack /\ file # None) =>
            SectorCounts(JsonLoad(file'[1])) = SectorCounts(JsonLoad(file[1]))]_vars

C8_Witness ==
    /\ pc = "done"
    /\ FellBack
    /\ Cardinality(DOMAIN engagement_counts) = Len(DIRECTION_CONFIG)
    /\ engagement_counts["pokrovsk"] = 43
    /\ engagement_counts["lyman"] = 10

\* C9: in every snapshot built, date is the calendar-date part of
\* lastUpdate, even when the clock advances during the build.
C9_DateOfLastUpdate ==
    Built => combat_data[1].date = DatePart(combat_data[1].lastUpdate)

\* C10: whenever main uses a fallback count map the sourceUrl of the written
\* snapshot is null; it is not null only when the counts were extracted
\* from the fetched article.
C10_FallbackHasNoSourceUrl ==
    pc = "done" =>
        /\ FellBack => JsonLoad(file[1]).sourceUrl = None
        /\ JsonLoad(file[1]).sourceUrl # None => Truthy(article_text)
=============================================================================
